---- MODULE Spec2Model ----
(***************************************************************************)
(* fshare: a file is pushed from a client (src/src/client.rs) to a server  *)
(* (src/src/server.rs) over one TCP stream, with the one-byte control      *)
(* messages of src/src/protocol.rs.                                        *)
(*                                                                         *)
(* Bytes are the naturals 0..255.  A byte string is a sequence of bytes.   *)
(***************************************************************************)
EXTENDS Integers, Sequences, FiniteSets, TLC

(***************************************************************************)
(* Bounds of the model.                                                    *)
(***************************************************************************)
\* longest file body a peer declares or a client loads
MaxLen == 2

\* connections made to the server in one run
MaxConn == 2

\* writes a peer of the server makes in one run, over all its connections
MaxItems == 6

(***************************************************************************)
(* protocol.rs: the message codec.                                         *)
(***************************************************************************)
Messages == {"FileTransferRequest", "RequestDenied", "Ack", "Goodbye"}

Bytes == 0..255

\* impl TryFrom<u8> for Message, with a wrong arm (43 and 200 exchanged)
TryFromSwapped(byte) ==
    CASE byte = 30 -> "FileTransferRequest"
      [] byte = 200 -> "RequestDenied"
      [] byte = 43 -> "Ack"
      [] byte = 255 -> "Goodbye"
      [] OTHER -> "Err"

\* impl TryFrom<u8> for Message: Ok(message) or Err(Error::Message)
TryFrom(byte) ==
    CASE byte = 30 -> "FileTransferRequest"
      [] byte = 43 -> "RequestDenied"
      [] byte = 200 -> "Ack"
      [] byte = 255 -> "Goodbye"
      [] OTHER -> "Err"

\* Message::as_bytes: the one-byte encoding
AsBytes(m) ==
    CASE m = "FileTransferRequest" -> <<30>>
      [] m = "RequestDenied" -> <<43>>
      [] m = "Ack" -> <<200>>
      [] m = "Goodbye" -> <<255>>

(***************************************************************************)
(* u64 arithmetic.  A u64 is kept as three limbs, hi (16 bits), mid and lo *)
(* (24 bits each), so that no intermediate value exceeds 32 bits.          *)
(***************************************************************************)
Limb == 16777216

HiLimb == 65536

U64Zero == [hi |-> 0, mid |-> 0, lo |-> 0]

\* u64::from_be_bytes: b[1] is the most significant byte
FromBeBytes(b) ==
    [hi |-> b[1] * 256 + b[2],
     mid |-> (b[3] * 256 + b[4]) * 256 + b[5],
     lo |-> (b[6] * 256 + b[7]) * 256 + b[8]]

\* u64::to_be_bytes of a length below 2^24 (every length of the model)
ToBeBytes(n) ==
    <<0, 0, 0, 0, 0, (n \div 65536) % 256, (n \div 256) % 256, n % 256>>

\* size > 0
U64Positive(x) == x.hi > 0 \/ x.mid > 0 \/ x.lo > 0

\* n > x, for a small n: the subtraction x - n overflows
U64Less(x, n) == x.hi = 0 /\ x.mid = 0 /\ x.lo < n

\* x - n modulo 2^64, for 0 <= n < 2^24 (the release build's wrapping `-=`)
U64WrappingSub(x, n) ==
    IF x.lo >= n THEN [x EXCEPT !.lo = x.lo - n]
    ELSE IF x.mid > 0 THEN [x EXCEPT !.mid = x.mid - 1, !.lo = x.lo + Limb - n]
    ELSE [hi |-> (x.hi + HiLimb - 1) % HiLimb, mid |-> Limb - 1, lo |-> x.lo + Limb - n]

(***************************************************************************)
(* Sequences of bytes.                                                     *)
(***************************************************************************)
Take(s, n) == SubSeq(s, 1, n)

Drop(s, n) == SubSeq(s, n + 1, Len(s))

Min(a, b) == IF a <= b THEN a ELSE b

\* size[..k] overwritten by the bytes read, the rest left at its initial 0
FillArray(arr, got) ==
    [i \in 1..Len(arr) |-> IF i <= Len(got) THEN got[i] ELSE arr[i]]

(***************************************************************************)
(* String::from_utf8: whether a byte string is valid UTF-8.                *)
(***************************************************************************)
IsCont(b) == b >= 128 /\ b <= 191

RECURSIVE Utf8Valid(_)
Utf8Valid(s) ==
    IF s = <<>> THEN TRUE
    ELSE LET b == s[1] IN
      IF b < 128 THEN Utf8Valid(Tail(s))
      ELSE IF b >= 194 /\ b <= 223
        THEN Len(s) >= 2 /\ IsCont(s[2]) /\ Utf8Valid(Drop(s, 2))
      ELSE IF b >= 224 /\ b <= 239
        THEN /\ Len(s) >= 3
             /\ IsCont(s[2]) /\ IsCont(s[3])
             /\ (b = 224 => s[2] >= 160)
             /\ (b = 237 => s[2] <= 159)
             /\ Utf8Valid(Drop(s, 3))
      ELSE IF b >= 240 /\ b <= 244
        THEN /\ Len(s) >= 4
             /\ IsCont(s[2]) /\ IsCont(s[3]) /\ IsCont(s[4])
             /\ (b = 240 => s[2] >= 144)
             /\ (b = 244 => s[2] <= 143)
             /\ Utf8Valid(Drop(s, 4))
      ELSE FALSE

(***************************************************************************)
(* std::path on a Unix target, as far as the server and the client use it. *)
(***************************************************************************)
Slash == 47

Dot == 46

\* Option::None of a name or path (no byte string holds -1)
NoName == <<-1>>

\* the '/'-separated segments of a path string, empty ones included
RECURSIVE Segments(_, _)
Segments(s, cur) ==
    IF s = <<>> THEN <<cur>>
    ELSE IF s[1] = Slash THEN <<cur>> \o Segments(Tail(s), <<>>)
    ELSE Segments(Tail(s), Append(cur, s[1]))

\* Path::components: repeated separators and "." are dropped, except a
\* leading "." of a relative path; the root is not listed here
Components(s) ==
    LET segs == Segments(s, <<>>)
        rooted == s # <<>> /\ s[1] = Slash
        keep(i) == /\ segs[i] # <<>>
                   /\ (segs[i] = <<Dot>> => (i = 1 /\ ~rooted))
    IN SelectSeq([i \in 1..Len(segs) |-> <<i, segs[i]>>], LAMBDA p : keep(p[1]))

\* Path::file_name: the last component when it is a normal one
FileName(s) ==
    LET cs == Components(s) IN
      IF cs = <<>> THEN NoName
      ELSE LET last == cs[Len(cs)][2] IN
        IF last = <<Dot, Dot>> \/ last = <<Dot>> THEN NoName ELSE last

\* PathBuf::push: an absolute component replaces the path, a relative one is
\* appended after a separator
PathPush(path, comp) ==
    IF comp # <<>> /\ comp[1] = Slash THEN comp
    ELSE IF path # <<>> /\ path[Len(path)] = Slash THEN path \o comp
    ELSE path \o <<Slash>> \o comp

(***************************************************************************)
(* The file system the server writes to: the directories that exist, and   *)
(* the operating system's resolution of an absolute path string.  A        *)
(* resolved path is the sequence of its component names from the root.     *)
(***************************************************************************)
\* the directory the server was configured with, "/d"
Directory == <<Slash, 100>>

\* the directories that exist: "/", "/d" and "/e"
Dirs == {<<>>, <<(<<100>>)>>, <<(<<101>>)>>}

Invalid == <<(<<-1>>)>>

RECURSIVE Walk(_, _)
Walk(segs, cur) ==
    IF segs = <<>> THEN cur
    ELSE IF cur \notin Dirs THEN Invalid
    ELSE IF segs[1] = <<>> \/ segs[1] = <<Dot>> THEN Walk(Tail(segs), cur)
    ELSE IF segs[1] = <<Dot, Dot>>
      THEN Walk(Tail(segs), IF cur = <<>> THEN cur ELSE Take(cur, Len(cur) - 1))
    ELSE Walk(Tail(segs), Append(cur, segs[1]))

\* where open(2) finds or creates the file named by an absolute path string;
\* Invalid when the string holds a NUL, a directory on the way does not exist
\* or the path names a directory
OsResolve(path) ==
    IF \E i \in 1..Len(path) : path[i] = 0 THEN Invalid
    ELSE LET r == Walk(Segments(path, <<>>), <<>>) IN
      IF r \in Dirs THEN Invalid ELSE r

(***************************************************************************)
(* State.                                                                  *)
(***************************************************************************)
VARIABLES
    codec,      \* the codec under test: its inputs and results
    c2s,        \* per connection: bytes written by the client end, not yet read
    s2c,        \* per connection: bytes written by the server end, not yet read
    cEnd,       \* per connection: the client's end, "none", "open" or "closed"
    sEnd,       \* per connection: the server's end, "none", "pending" (connected,
                \* not yet accepted), "open" or "closed"
    srv,        \* server.rs: struct Server and the position of Server::run
    disk,       \* the files created so far: resolved path -> content
    peer,       \* a peer that writes bytes of its own choice (to the server, or
                \* as a server to the client)
    cli,        \* client.rs: the Client value and the position of Client::send
    hist        \* history of the run, read by the properties only.
                \* Of the receive_file under way or last ended: the tags of the
                \* bytes it took from the socket (rfTaken), whether a read in its
                \* loop met the end of the stream (rfEof), how it stands
                \* (rfResult), the bytes it flushed (rfWritten), the file it
                \* created (rfDest) and its connection (rfConn).
                \* Of the client's run: the bytes written on its connection,
                \* in order, with the side that wrote each (wire), and the
                \* body of which send_file returned Ok (sendOk).
                \* faults: some I/O call failed, timed out or came short.
                \* sEv, cEv: what the server did since it last read a message and
                \* the client up to the end of its negotiation.  srcName, srcBody: the base name and
                \* the content of the file that run loaded.  gbSends: the
                \* sends of Client::goodbye so far (the successful ones counted,
                \* and logged in wire, up to MaxGbOk).  sGbFails: the failed sends
                \* of Server::goodbye so far.  orderly, names: the raw peer has
                \* waited for every reply so far on its connection, and the names
                \* it has sent on it, one a round.  rName: the bytes
                \* receive_filename took since the server last read a message on
                \* this connection.  rfSize: the length receive_file read from
                \* the prefix.

vars == <<codec, c2s, s2c, cEnd, sEnd, srv, disk, peer, cli, hist>>

netVars == <<c2s, s2c, cEnd, sEnd>>

Conns == 1..MaxConn

\* A byte in flight is <<value, kind, round, idx, len>>: the code reads the
\* value only; the rest is what the writer meant the byte as: the idx-th byte
\* of a "ctl", "name", "size" or "body" item of the connection's round-th
\* transfer, whose declared body length is len.
Val(e) == e[1]

Vals(q) == [i \in 1..Len(q) |-> q[i][1]]

Tags(q) == [i \in 1..Len(q) |->
              [kind |-> q[i][2], round |-> q[i][3], idx |-> q[i][4], len |-> q[i][5]]]

Tagged(bs, kind, round, len) == [i \in 1..Len(bs) |-> <<bs[i], kind, round, i, len>>]

\* Option<String>::None, Option<TcpStream>::None
NoConn == 0

(***************************************************************************)
(* The socket.  A blocking read with the 5 s timeout returns any non-empty *)
(* prefix of what has arrived (at most cap bytes), 0 bytes at end of       *)
(* stream, or fails when nothing arrives in time.                          *)
(***************************************************************************)
ReadOutcomes(q, writerEnd, cap) ==
    {[kind |-> "data", n |-> k] : k \in 1..Min(cap, Len(q))}
    \cup (IF q = <<>> /\ writerEnd = "closed" THEN {[kind |-> "eof", n |-> 0]} ELSE {})
    \cup (IF q = <<>> /\ writerEnd \in {"open", "pending"}
          THEN {[kind |-> "timeout", n |-> 0]} ELSE {})

\* a write either is accepted or fails
WriteOutcomes == {"ok", "err"}

\* a read that returned less than had arrived and the buffer could hold
ShortRead(o, q) == o.kind = "data" /\ o.n < Len(q)

(***************************************************************************)
(* History.                                                                *)
(***************************************************************************)
\* the longest wire log and event log kept
LogCap == 8 + MaxLen + 12

Sat(log, x) == IF Len(log) < LogCap THEN Append(log, x) ELSE log

RECURSIVE SatAll(_, _)
SatAll(log, xs) == IF xs = <<>> THEN log ELSE SatAll(Sat(log, Head(xs)), Tail(xs))

\* the bytes bs were written on connection i by side "c" or "s"; the log is
\* that of the client's connection
HWire(h, i, side, bs) ==
    IF i = cli.conn
    THEN [h EXCEPT !.wire = SatAll(@, [k \in 1..Len(bs) |-> <<side, bs[k]>>])]
    ELSE h

\* an I/O call failed, timed out or moved fewer bytes than it could
HFault(h, b) == [h EXCEPT !.faults = @ \/ b]

\* an event of the server in the current transfer, of the client in its run
HSrvEv(h, e) == [h EXCEPT !.sEv = Sat(@, e)]

HCliEv(h, e) == [h EXCEPT !.cEv = Sat(@, e)]

\* BufReader's and BufWriter's capacity, DEFAULT_BUF_SIZE
BufCapacity == 8192

(***************************************************************************)
(* server.rs                                                               *)
(***************************************************************************)
SrvInit ==
    srv = [pc |-> "listen", connection |-> NoConn, state |-> "None",
           filename |-> NoName, size |-> U64Zero, rbuf |-> <<>>, wbuf |-> <<>>,
           dest |-> Invalid, attempt |-> 0, err |-> "none"]

\* goodbye(): let max_attempts = 10
SrvMaxAttempts == 10

\* receive_file is left: its BufReader, BufWriter and size are dropped
NoLocals(sv) == [sv EXCEPT !.size = U64Zero, !.rbuf = <<>>, !.wbuf = <<>>, !.dest = Invalid]

\* Server::run returns Err(e): the process ends, every socket is closed
Returned(sv, e) == [NoLocals(sv) EXCEPT !.pc = "returned", !.err = e]

\* a panic unwinds main: the process ends
Panicked(sv) == [NoLocals(sv) EXCEPT !.pc = "panicked", !.err = "panic"]

ServerGone(sv) == sv.pc \in {"returned", "panicked"}

CloseAll == [i \in Conns |-> IF sEnd[i] \in {"pending", "open"} THEN "closed" ELSE sEnd[i]]

SEndAfter(sv) == IF ServerGone(sv) THEN CloseAll ELSE sEnd


\* progress_protocol: the match on self.state
ProgressProtocol(sv) ==
    CASE sv.state = "Connected" -> [sv EXCEPT !.pc = "receive_message"]
      [] sv.state = "Negotiating" -> [sv EXCEPT !.pc = "receive_filename"]
      [] sv.state = "Receiving" -> [sv EXCEPT !.pc = "receive_file"]
      [] OTHER -> Returned(sv, "Behaviour")

\* a handle_message that takes every message but Goodbye for a request
HandleMessageEager(m) ==
    CASE m = "Goodbye" -> "goodbye"
      [] OTHER -> "ack_request"

\* handle_message: what the server does next
HandleMessage(m) ==
    CASE m = "Goodbye" -> "goodbye"
      [] m = "FileTransferRequest" -> "ack_request"
      [] OTHER -> "goodbye"

\* a run that takes the stream and leaves the phase as it was
IncomingStale(sv, i) == [sv EXCEPT !.connection = i]

\* run: `self.connection = Some(stream); self.state = Some(State::Connected)`
Incoming(sv, i) == [sv EXCEPT !.connection = i, !.state = "Connected"]

\* the accept loop takes the oldest pending connection
SrvAccept ==
    /\ srv.pc = "listen"
    /\ \E i \in Conns :
         /\ sEnd[i] = "pending"
         /\ \A j \in Conns : sEnd[j] = "pending" => i <= j
         /\ sEnd' = [sEnd EXCEPT ![i] = "open"]
         /\ srv' = ProgressProtocol(Incoming(srv, i))
    /\ hist' = [hist EXCEPT !.sEv = <<>>, !.rName = NoName]
    /\ UNCHANGED <<codec, c2s, s2c, cEnd, disk, peer, cli>>

\* `let stream = stream?`: accept() fails
SrvAcceptErr ==
    /\ srv.pc = "listen"
    /\ srv' = Returned(srv, "Accept")
    /\ sEnd' = CloseAll
    /\ hist' = HFault(hist, TRUE)
    /\ UNCHANGED <<codec, c2s, s2c, cEnd, disk, peer, cli>>

\* send_message: one write of the message's byte, and what follows it: on
\* success the server goes on as svOk, on failure Server::run returns the
\* error.  The bytes a closed peer would never read are dropped.
SrvSend(m, svOk, h) ==
    LET i == srv.connection IN
    \E w \in WriteOutcomes :
      IF w = "ok"
      THEN /\ s2c' = IF cEnd[i] = "open"
                     THEN [s2c EXCEPT ![i] = @ \o Tagged(AsBytes(m), "ctl", 0, 0)]
                     ELSE s2c
           /\ srv' = svOk
           /\ hist' = HSrvEv(HWire(h, i, "s", AsBytes(m)), "s" \o m)
      ELSE /\ s2c' = s2c
           /\ srv' = Returned(srv, "Io")
           /\ hist' = HFault(h, TRUE)

\* receive_message, then handle_message
SrvReceiveMessage ==
    /\ srv.pc = "receive_message"
    /\ LET i == srv.connection IN
       \E o \in ReadOutcomes(c2s[i], cEnd[i], 1) :
         LET byte == IF o.kind = "data" THEN Val(c2s[i][1]) ELSE 0
             m == TryFrom(byte)
         IN
           /\ c2s' = [c2s EXCEPT ![i] = Drop(@, o.n)]
           /\ srv' = IF o.kind = "timeout" THEN Returned(srv, "Timeout")
                     ELSE IF m = "Err" THEN Returned(srv, "Message")
                     ELSE [srv EXCEPT !.pc = HandleMessage(m)]
           /\ hist' = IF o.kind = "timeout" THEN HFault(hist, TRUE)
                      ELSE [hist EXCEPT !.sEv = <<"r" \o m>>, !.rName = NoName]
    /\ sEnd' = SEndAfter(srv')
    /\ UNCHANGED <<codec, s2c, cEnd, disk, peer, cli>>

\* handle_message, FileTransferRequest: send Ack, state = Negotiating
SrvAckRequest ==
    /\ srv.pc = "ack_request"
    /\ SrvSend("Ack", ProgressProtocol([srv EXCEPT !.state = "Negotiating"]), hist)
    /\ sEnd' = SEndAfter(srv')
    /\ UNCHANGED <<codec, c2s, cEnd, disk, peer, cli>>

\* a receive_filename that keeps a name it already has
ReceivedFilenameOnce(sv, received) ==
    [sv EXCEPT !.filename = IF @ = NoName THEN received ELSE @, !.pc = "ack_filename"]

\* `self.filename = Some(String::from_utf8(received)?)`, the Ok case
ReceivedFilename(sv, received) ==
    [sv EXCEPT !.filename = received, !.pc = "ack_filename"]

\* receive_filename: one fill_buf of a fresh BufReader, all of it consumed
SrvReceiveFilename ==
    /\ srv.pc = "receive_filename"
    /\ LET i == srv.connection IN
       \E o \in ReadOutcomes(c2s[i], cEnd[i], BufCapacity) :
         LET received == Vals(Take(c2s[i], o.n)) IN
           /\ c2s' = [c2s EXCEPT ![i] = Drop(@, o.n)]
           /\ srv' = IF o.kind = "timeout" THEN Returned(srv, "Timeout")
                     ELSE IF ~Utf8Valid(received) THEN Returned(srv, "Utf8")
                     ELSE ReceivedFilename(srv, received)
           /\ hist' = IF o.kind = "timeout" THEN HFault(hist, TRUE)
                      ELSE [HSrvEv(HFault(hist, ShortRead(o, c2s[i])), "rName")
                              EXCEPT !.rName = IF Utf8Valid(received) THEN received
                                               ELSE @]
    /\ sEnd' = SEndAfter(srv')
    /\ UNCHANGED <<codec, s2c, cEnd, disk, peer, cli>>

\* progress_protocol, Negotiating: send Ack, state = Receiving
SrvAckFilename ==
    /\ srv.pc = "ack_filename"
    /\ SrvSend("Ack", ProgressProtocol([srv EXCEPT !.state = "Receiving"]), hist)
    /\ sEnd' = SEndAfter(srv')
    /\ UNCHANGED <<codec, c2s, cEnd, disk, peer, cli>>

\* how receive_file stands: running, or ended by an error or a panic
RfResult(sv) ==
    IF sv.pc = "rf_loop" THEN "running"
    ELSE IF sv.pc = "panicked" THEN "panic"
    ELSE "Err"

\* a flush that loses what the BufWriter holds
Unflushed(d, dest, wbuf) == d

\* BufWriter::flush, and its Drop: the buffered bytes reach the file
Flushed(d, dest, wbuf) == [d EXCEPT ![dest] = @ \o wbuf]

\* File::create: the file exists and is empty
Created(d, dest) == (dest :> <<>>) @@ d

\* the received name pushed as it is, directory components and all
DestPathRaw(directory, filename) == PathPush(directory, filename)

\* the path receive_file creates: the directory joined with the received
\* name's final component
DestPath(directory, filename) == PathPush(directory, FileName(filename))

\* receive_file up to its loop: `reader.read(&mut size)` is one fill_buf of a
\* fresh BufReader of which at most 8 bytes go to `size`; then the file is
\* created
SrvReceiveFile ==
    /\ srv.pc = "receive_file"
    /\ LET i == srv.connection IN
       \E o \in ReadOutcomes(c2s[i], cEnd[i], BufCapacity), creat \in {"ok", "err"} :
         LET chunk == Take(c2s[i], o.n)
             n8 == Min(8, o.n)
             size == FromBeBytes(FillArray(<<0, 0, 0, 0, 0, 0, 0, 0>>, Take(Vals(chunk), n8)))
             dest == OsResolve(DestPath(Directory, srv.filename))
             sv == [srv EXCEPT !.size = size, !.rbuf = Drop(Vals(chunk), n8),
                               !.wbuf = <<>>, !.dest = dest]
         IN
           /\ c2s' = [c2s EXCEPT ![i] = Drop(@, o.n)]
           /\ IF o.kind = "timeout"
              THEN creat = "ok" /\ srv' = Returned(srv, "Timeout") /\ disk' = disk
              ELSE IF srv.filename = NoName
              THEN creat = "ok" /\ srv' = Panicked(sv) /\ disk' = disk
              ELSE IF FileName(srv.filename) = NoName
              THEN creat = "ok" /\ srv' = Returned(sv, "Generic") /\ disk' = disk
              ELSE IF dest = Invalid \/ creat = "err"
              THEN creat = "err" /\ srv' = Returned(sv, "Create") /\ disk' = disk
              ELSE /\ srv' = [sv EXCEPT !.pc = "rf_loop"]
                   /\ disk' = Created(disk, dest)
           /\ hist' = [HFault(hist, o.kind = "timeout" \/ ShortRead(o, c2s[i])
                                    \/ (creat = "err" /\ dest # Invalid))
                         EXCEPT !.rfTaken = Tags(chunk), !.rfEof = FALSE,
                                !.rfResult = RfResult(srv'), !.rfDest = dest,
                                !.rfConn = i,
                                !.rfSize = IF o.kind = "timeout" THEN @ ELSE size]
    /\ sEnd' = SEndAfter(srv')
    /\ UNCHANGED <<codec, s2c, cEnd, peer, cli>>

\* `size -= received.len() as u64`: the difference; where the subtraction
\* overflows, a build with overflow checks (debug) panics and one without
\* (release) wraps
SizeAfter(size, n) ==
    {[panic |-> FALSE, size |-> U64WrappingSub(size, n)]}
    \cup (IF U64Less(size, n) THEN {[panic |-> TRUE, size |-> size]} ELSE {})

\* one turn of `while size > 0`: fill_buf (what the BufReader still holds,
\* else one read of the socket), write_all, the subtraction, consume
SrvReceiveFileLoop ==
    /\ srv.pc = "rf_loop"
    /\ U64Positive(srv.size)
    /\ LET i == srv.connection IN
       \E o \in (IF srv.rbuf # <<>> THEN {[kind |-> "buffered", n |-> 0]}
                 ELSE ReadOutcomes(c2s[i], cEnd[i], BufCapacity)) :
         LET chunk == Take(c2s[i], o.n)
             received == IF o.kind = "buffered" THEN srv.rbuf ELSE Vals(chunk)
             wbuf == srv.wbuf \o received
         IN
           /\ c2s' = [c2s EXCEPT ![i] = Drop(@, o.n)]
           /\ IF o.kind = "timeout"
              THEN /\ srv' = Returned(srv, "Timeout")
                   /\ disk' = Flushed(disk, srv.dest, srv.wbuf)
              ELSE \E a \in SizeAfter(srv.size, Len(received)) :
                     IF a.panic
                     THEN /\ srv' = Panicked([srv EXCEPT !.rbuf = <<>>, !.wbuf = wbuf])
                          /\ disk' = Flushed(disk, srv.dest, wbuf)
                     ELSE /\ srv' = [srv EXCEPT !.rbuf = <<>>, !.wbuf = wbuf, !.size = a.size]
                          /\ disk' = disk
           /\ hist' = [HFault(hist, o.kind = "timeout" \/ ShortRead(o, c2s[i]))
                         EXCEPT !.rfTaken = @ \o Tags(chunk),
                                !.rfEof = @ \/ o.kind = "eof",
                                !.rfResult = RfResult(srv')]
    /\ sEnd' = SEndAfter(srv')
    /\ UNCHANGED <<codec, s2c, cEnd, peer, cli>>

\* the loop is left with size = 0: writer.flush()?, Ok(())
SrvReceiveFileFlush ==
    /\ srv.pc = "rf_loop"
    /\ ~U64Positive(srv.size)
    /\ \E w \in WriteOutcomes :
         IF w = "ok"
         THEN /\ disk' = Flushed(disk, srv.dest, srv.wbuf)
              /\ srv' = [NoLocals(srv) EXCEPT !.pc = "ack_file"]
              /\ hist' = [hist EXCEPT !.rfResult = "Ok", !.rfWritten = Len(srv.wbuf)]
         ELSE /\ disk' = disk
              /\ srv' = Returned(srv, "Flush")
              /\ hist' = [HFault(hist, TRUE) EXCEPT !.rfResult = "Err"]
    /\ sEnd' = SEndAfter(srv')
    /\ UNCHANGED <<codec, c2s, s2c, cEnd, peer, cli>>

\* the history of a transfer that is over
HistNoTransfer(h) ==
    [h EXCEPT !.rfTaken = <<>>, !.rfEof = FALSE, !.rfResult = "none", !.rfWritten = 0,
              !.rfDest = Invalid, !.rfConn = 0, !.rfSize = U64Zero]

\* progress_protocol, Receiving: send Ack, state = Connected
SrvAckFile ==
    /\ srv.pc = "ack_file"
    /\ SrvSend("Ack", ProgressProtocol([srv EXCEPT !.state = "Connected"]),
               HistNoTransfer(hist))
    /\ sEnd' = SEndAfter(srv')
    /\ UNCHANGED <<codec, c2s, cEnd, disk, peer, cli>>

\* goodbye(): `if attempt < max_attempts { break Err(e) }`
SrvGiveUp(attempt) == attempt < SrvMaxAttempts

\* goodbye(): one turn of its loop.  A failed send ends it with the error (or
\* is tried again); after a successful one the read half is shut down, which
\* may fail, and connection and state are cleared: the stream is dropped and
\* what the peer wrote to it is never read.
SrvGoodbye ==
    /\ srv.pc = "goodbye"
    /\ LET i == srv.connection IN
       \E w \in WriteOutcomes, shut \in {"ok", "err"} :
         IF w = "err"
         THEN /\ shut = "ok"
              /\ s2c' = s2c
              /\ srv' = IF SrvGiveUp(srv.attempt) THEN Returned(srv, "Goodbye") ELSE srv
              /\ hist' = [HFault(hist, TRUE) EXCEPT !.sGbFails = @ + 1]
         ELSE /\ s2c' = IF cEnd[i] = "open"
                        THEN [s2c EXCEPT ![i] = @ \o Tagged(AsBytes("Goodbye"), "ctl", 0, 0)]
                        ELSE s2c
              /\ srv' = IF shut = "err" THEN Returned(srv, "Io")
                        ELSE [srv EXCEPT !.connection = NoConn, !.state = "None",
                                         !.pc = "listen"]
              /\ hist' = [HFault(HSrvEv(HWire(hist, i, "s", AsBytes("Goodbye")),
                                        "sGoodbye"),
                                 shut = "err")
                            EXCEPT !.sGbFails = 0]
    /\ sEnd' = IF ServerGone(srv') THEN CloseAll
               ELSE IF srv'.connection = NoConn
               THEN [sEnd EXCEPT ![srv.connection] = "closed"]
               ELSE sEnd
    /\ c2s' = IF srv'.connection = NoConn THEN [c2s EXCEPT ![srv.connection] = <<>>]
              ELSE c2s
    /\ UNCHANGED <<codec, cEnd, disk, peer, cli>>

ServerNext ==
    \/ SrvAccept
    \/ SrvAcceptErr
    \/ SrvReceiveMessage
    \/ SrvAckRequest
    \/ SrvReceiveFilename
    \/ SrvAckFilename
    \/ SrvReceiveFile
    \/ SrvReceiveFileLoop
    \/ SrvReceiveFileFlush
    \/ SrvAckFile
    \/ SrvGoodbye

(***************************************************************************)
(* A peer of the server that is not the client of client.rs: it follows    *)
(* the order of the protocol (request byte, name, size prefix, body) but   *)
(* chooses every byte, never waits for a reply, may declare a size and     *)
(* send less, and may close at any point.  After a control byte that is    *)
(* not a request it writes no more on that connection.                     *)
(***************************************************************************)
\* the control bytes the peer sends: the four messages and one that is none
PeerCtl == {30, 43, 200, 255, 7}

\* the filename payloads the peer sends: "a", "b", "../a", "/e/a", "a/..",
\* "..", one that is not UTF-8, and none at all
Payloads ==
    {<<97>>, <<98>>, <<Dot, Dot, Slash, 97>>, <<Slash, 101, Slash, 97>>,
     <<97, Slash, Dot, Dot>>, <<Dot, Dot>>, <<255>>, <<>>}

\* the bytes of a file body
BodyBytes == {1, 255}

Bodies(n) == UNION {[1..k -> BodyBytes] : k \in 1..n}

PeerInit ==
    peer = [pc |-> "idle", conn |-> 0, round |-> 0, items |-> 0, declared |-> 0, left |-> 0]

PeerLive ==
    /\ peer.pc \notin {"idle", "closed"}
    /\ sEnd[peer.conn] \in {"pending", "open"}
    /\ peer.items < MaxItems

PeerWrite(bs, kind, round, len) ==
    c2s' = [c2s EXCEPT ![peer.conn] = @ \o Tagged(bs, kind, round, len)]

\* the peer has waited for every reply the protocol gives it before this
\* write: k Acks and nothing else have come back on its connection
PeerWaited(k) ==
    /\ hist.orderly
    /\ Vals(s2c[peer.conn]) = [j \in 1..k |-> AsBytes("Ack")[1]]

\* the history after a write of the peer: names is kept for as long as the
\* peer has waited for its replies
PeerLog(waited, names) ==
    hist' = [hist EXCEPT !.orderly = waited, !.names = IF waited THEN names ELSE <<>>]

\* connect to the listening server, once it has closed the connection before
\* (until then it accepts no other, and what is written early is read late)
PeerConnect ==
    /\ peer.conn < MaxConn
    /\ ~ServerGone(srv)
    /\ peer.conn # 0 => sEnd[peer.conn] = "closed"
    /\ peer' = [peer EXCEPT !.pc = "ctl", !.conn = @ + 1, !.round = 0,
                            !.declared = 0, !.left = 0]
    /\ cEnd' = [i \in Conns |-> IF i = peer.conn + 1 THEN "open"
                                 ELSE IF i = peer.conn THEN "closed" ELSE cEnd[i]]
    /\ sEnd' = [sEnd EXCEPT ![peer.conn + 1] = "pending"]
    /\ hist' = [hist EXCEPT !.orderly = TRUE, !.names = <<>>]
    /\ UNCHANGED <<codec, c2s, s2c, srv, cli, disk>>

\* one control byte; after a FileTransferRequest the peer goes on to a name
PeerSendCtl ==
    /\ PeerLive
    /\ peer.pc = "ctl"
    /\ \E b \in PeerCtl :
         /\ PeerWrite(<<b>>, "ctl", peer.round, 0)
         /\ peer' = [peer EXCEPT !.pc = IF b = 30 THEN "name" ELSE "done",
                                 !.items = @ + 1]
    /\ PeerLog(PeerWaited(3 * peer.round), hist.names)
    /\ UNCHANGED <<codec, s2c, cEnd, sEnd, srv, cli, disk>>

PeerSendName ==
    /\ PeerLive
    /\ peer.pc = "name"
    /\ \E p \in Payloads :
         /\ PeerWrite(p, "name", peer.round + 1, 0)
         /\ PeerLog(PeerWaited(3 * peer.round + 1), Append(hist.names, p))
    /\ peer' = [peer EXCEPT !.pc = "size", !.items = @ + 1]
    /\ UNCHANGED <<codec, s2c, cEnd, sEnd, srv, cli, disk>>

\* the 8-byte big-endian prefix of a declared length
PeerSendSize ==
    /\ PeerLive
    /\ peer.pc = "size"
    /\ \E n \in 0..MaxLen :
         /\ PeerWrite(ToBeBytes(n), "size", peer.round + 1, n)
         /\ peer' = [peer EXCEPT !.pc = IF n = 0 THEN "ctl" ELSE "body",
                                 !.round = @ + 1, !.items = @ + 1,
                                 !.declared = n, !.left = n]
    /\ PeerLog(PeerWaited(3 * peer.round + 2), hist.names)
    /\ UNCHANGED <<codec, s2c, cEnd, sEnd, srv, cli, disk>>

\* all of the declared body, or less of it and then no more
PeerSendBody ==
    /\ PeerLive
    /\ peer.pc = "body"
    /\ \E bs \in Bodies(peer.left) :
         /\ PeerWrite(bs, "body", peer.round, peer.declared)
         /\ peer' = [peer EXCEPT !.left = @ - Len(bs), !.items = @ + 1,
                                 !.pc = IF peer.left = Len(bs) THEN "ctl" ELSE "short"]
    /\ PeerLog(PeerWaited(3 * peer.round - 1), hist.names)
    /\ UNCHANGED <<codec, s2c, cEnd, sEnd, srv, cli, disk>>

PeerClose ==
    /\ peer.pc \notin {"idle", "closed"}
    /\ sEnd[peer.conn] \in {"pending", "open"}
    /\ peer' = [peer EXCEPT !.pc = "closed"]
    /\ cEnd' = [cEnd EXCEPT ![peer.conn] = "closed"]
    /\ s2c' = [s2c EXCEPT ![peer.conn] = <<>>]
    /\ UNCHANGED <<codec, c2s, sEnd, srv, cli, disk, hist>>

PeerNext ==
    \/ PeerConnect
    \/ PeerSendCtl
    \/ PeerSendName
    \/ PeerSendSize
    \/ PeerSendBody
    \/ PeerClose

(***************************************************************************)
(* client.rs: Client::send, one step per I/O call.  A Client value that an *)
(* error path consumes and drops is in state "Dropped": its TcpStream is   *)
(* closed by Drop and no caller holds it any more.                         *)
(***************************************************************************)
\* goodbye(): `let max_attempts = 5`
ClientMaxAttempts == 5

\* the most calls of load_file on one client that are followed
MaxLoads == 6

\* the most successful sends of one call of goodbye() that are counted, and
\* made where a server has them to read; where nothing reads them the loop
\* goes on uncounted (the failed ones the code bounds itself)
MaxGbOk == 2

\* Option<anyhow::Error>::None
NoError == [kind |-> "none", at |-> 0]

\* the paths given to send(): "a", "x/b" and ".."
CliPaths == {<<97>>, <<120, Slash, 98>>, <<Dot, Dot>>}

\* the contents of the file at such a path: of every length up to MaxLen
Contents == {[k \in 1..n |-> IF k = 1 THEN 1 ELSE 255] : n \in 0..MaxLen}

\* Client::new()
NewClient(runs) ==
    [pc |-> "new", state |-> "Disconnected", file |-> NoName, filename |-> NoName,
     error |-> NoError, conn |-> NoConn, attempt |-> 0, result |-> "none",
     ret |-> "none", at |-> "none", caller |-> "send", runs |-> runs]

CliInit == cli = NewClient(1)

\* no client runs
CliOff == cli = [NewClient(0) EXCEPT !.pc = "off"]

\* the client is consumed: send() returns res, having come as far as `at`
CliDrop(c, res, at) ==
    [c EXCEPT !.pc = "done", !.state = "Dropped", !.result = res, !.at = at]

\* the client is consumed by a call that returns the error `why`
CliFail(c, at, why) == [CliDrop(c, "Err", at) EXCEPT !.ret = why]

\* disconnect(error): connection dropped, Client<Disconnected> with the error
CliDisconnect(c, e) ==
    [c EXCEPT !.pc = "done", !.state = "Disconnected", !.error = e,
              !.result = "Ok", !.at = "goodbye"]

\* the client's end of its connection once the client is c
CEndAfter(c) ==
    IF c.pc = "done" /\ cli.conn # NoConn
    THEN [cEnd EXCEPT ![cli.conn] = "closed"] ELSE cEnd

\* what is left for the client to read once the client is c
S2cAfter(c, q) ==
    IF c.pc = "done" /\ cli.conn # NoConn
    THEN [q EXCEPT ![cli.conn] = <<>>] ELSE q

\* the bytes bs are written to the connection; a peer that reads nothing, or
\* has closed, never sees them
\* what the client writes stays in flight until a server reads it
CliWriteQueues == peer.pc # "raw" /\ sEnd[cli.conn] \in {"pending", "open"}

CliWrite(bs, kind, len) ==
    c2s' = IF CliWriteQueues
           THEN [c2s EXCEPT ![cli.conn] = @ \o Tagged(bs, kind, 1, len)]
           ELSE c2s

\* receive_message: read() into [0; 1], then try_from(buffer[0]): a message,
\* "Err" for a byte that is none (the 0 left in the buffer at end of stream
\* too), "Timeout" when read() fails
Reply(o, q) ==
    IF o.kind = "timeout" THEN "Timeout"
    ELSE TryFrom(IF o.kind = "data" THEN Val(q[1]) ELSE 0)

\* a request() that sends whatever is configured
RequestUnchecked(c) == TRUE

\* request(): `if self.state.file.is_some()`, `if self.state.filename.is_some()`
RequestConfigured(c) == c.file # NoName /\ c.filename # NoName

\* request(): `if let protocol::Message::Ack = received`
RequestAcked(r) == r = "Ack"

\* a send() that takes every reply it could read for an Ack
NegotiationAckedAny(r) == r # "Timeout"

\* send(): `if let Ok(protocol::Message::Ack) = negotiating_client.receive_message()`
NegotiationAcked(r) == r = "Ack"

\* a goodbye() that allows one failure more
CliGivesUpLate(attempt) == attempt > ClientMaxAttempts

\* goodbye(): `if attempt >= max_attempts`
CliGivesUp(attempt) == attempt >= ClientMaxAttempts

\* main: a new Client for another send()
CliNew ==
    /\ cli.pc = "done"
    /\ cli.runs < MaxConn
    /\ cli' = NewClient(cli.runs + 1)
    /\ hist' = [hist EXCEPT !.cEv = <<>>, !.srcName = NoName, !.srcBody = NoName,
                            !.wire = <<>>, !.sendOk = NoName,
                            !.gbSends = 0]
    /\ UNCHANGED <<codec, c2s, s2c, cEnd, sEnd, srv, disk, peer>>

\* load_file: file_name() of the path, stored; then File::open
\* load_file(filepath) on the client c, the file at filepath having the
\* given content if File::open succeeds: the client after the call and what
\* the call returned.  The name is stored before the file is opened.
LoadFile(c, path, content, open) ==
    LET name == FileName(path) IN
      IF name = NoName THEN [c |-> c, ret |-> "NoFileName"]
      ELSE IF open = "err" THEN [c |-> [c EXCEPT !.filename = name], ret |-> "Open"]
      ELSE [c |-> [c EXCEPT !.filename = name, !.file = content], ret |-> "Ok"]

\* the history of a load_file: the file now loaded, or a failed open
LoadLogged(h, l) ==
    IF l.ret = "Ok" THEN [h EXCEPT !.srcName = l.c.filename, !.srcBody = l.c.file]
    ELSE IF l.ret = "Open" THEN HFault(h, TRUE)
    ELSE h

CliLoadFile ==
    /\ cli.pc = "new"
    /\ \E path \in CliPaths, content \in Contents, open \in {"ok", "err"} :
         LET l == LoadFile(cli, path, content, open) IN
           /\ l.ret # "Ok" => content = <<>>
           /\ l.ret = "NoFileName" => open = "ok"
           /\ cli' = IF l.ret = "Ok" THEN [l.c EXCEPT !.pc = "connect"]
                     ELSE CliFail(l.c, "load_file", l.ret)
           /\ hist' = LoadLogged(hist, l)
    /\ UNCHANGED <<codec, c2s, s2c, cEnd, sEnd, srv, disk, peer>>

\* load_file called again on a client that is kept whatever it returns (a
\* caller inside the crate: the trait is private); cli.attempt counts the calls
CliLoadAgain ==
    /\ cli.pc = "load"
    /\ cli.attempt < MaxLoads
    /\ \E path \in CliPaths, content \in Contents, open \in {"ok", "err"} :
         LET l == LoadFile(cli, path, content, open) IN
           /\ l.ret # "Ok" => content = <<>>
           /\ l.ret = "NoFileName" => open = "ok"
           /\ cli' = [l.c EXCEPT !.attempt = @ + 1, !.ret = l.ret]
           /\ hist' = LoadLogged(hist, l)
    /\ UNCHANGED <<codec, c2s, s2c, cEnd, sEnd, srv, disk, peer>>

\* a caller of the library that loads no file: Client::new().connect(..),
\* then request() on the connected client
CliNoFile ==
    /\ cli.pc = "new"
    /\ cli' = [cli EXCEPT !.caller = "lib", !.pc = "connect"]
    /\ UNCHANGED <<codec, c2s, s2c, cEnd, sEnd, srv, disk, peer, hist>>

\* a connect() that fails into a new client
CliConnectFailedNew(c, e) == [NewClient(c.runs) EXCEPT !.error = e, !.caller = c.caller]

\* connect(), Err: Client<Disconnected> with file and filename moved over
\* and the error
CliConnectFailed(c, e) == [c EXCEPT !.state = "Disconnected", !.error = e]

\* connect(), Ok: Client<Connected> with the connection, file and filename
\* moved over and no error
CliConnected(c, i) == [c EXCEPT !.state = "Connected", !.conn = i, !.error = NoError]

\* connect(): the address is parsed and TcpStream::connect called.  A run
\* connects once the server is through with the connection of the run
\* before.  The Err of a library caller ends its run.
CliConnect ==
    /\ cli.pc = "connect"
    /\ \E r \in {"ok", "AddrParse", "Connect"} :
         IF r = "ok"
         THEN /\ ~ServerGone(srv)
              /\ cli.runs > 1 => sEnd[cli.runs - 1] \notin {"pending", "open"}
              /\ cli' = [CliConnected(cli, cli.runs) EXCEPT !.pc = "request_send"]
              /\ cEnd' = [cEnd EXCEPT ![cli.runs] = "open"]
              /\ sEnd' = [sEnd EXCEPT ![cli.runs] = "pending"]
              /\ hist' = hist
         ELSE /\ cli' = [CliConnectFailed(cli, [kind |-> r, at |-> 0]) EXCEPT
                            !.pc = IF cli.caller = "send" THEN "connect_err" ELSE "done",
                            !.at = "connect"]
              /\ cEnd' = cEnd
              /\ sEnd' = sEnd
              /\ hist' = HFault(hist, TRUE)
    /\ UNCHANGED <<codec, c2s, s2c, srv, disk, peer>>

\* send(): `Err(e) => eprintln!(..)`, then Ok(()): the Disconnected client is
\* consumed
CliConnectErr ==
    /\ cli.pc = "connect_err"
    /\ cli' = CliDrop(cli, "Ok", "connect")
    /\ UNCHANGED <<codec, c2s, s2c, cEnd, sEnd, srv, disk, peer, hist>>

\* request(): file and filename are configured; send FileTransferRequest
CliRequestSend ==
    /\ cli.pc = "request_send"
    /\ \E w \in WriteOutcomes :
         IF ~RequestConfigured(cli)
         THEN /\ w = "ok"
              /\ c2s' = c2s
              /\ cli' = CliFail(cli, "request_send",
                                IF cli.file = NoName THEN "NoFile" ELSE "NoFilename")
              /\ hist' = hist
         ELSE IF w = "ok"
         THEN /\ CliWrite(AsBytes("FileTransferRequest"), "ctl", 0)
              /\ cli' = [cli EXCEPT !.pc = "request_recv"]
              /\ hist' = HCliEv(HWire(hist, cli.conn, "c", AsBytes("FileTransferRequest")),
                                "sFileTransferRequest")
         ELSE /\ c2s' = c2s
              /\ cli' = CliFail(cli, "request_send", "Io")
              /\ hist' = HFault(hist, TRUE)
    /\ cEnd' = CEndAfter(cli')
    /\ s2c' = S2cAfter(cli', s2c)
    /\ UNCHANGED <<codec, sEnd, srv, disk, peer>>

\* request(): `let received = self.receive_message()?`, then Ack or bail!
CliRequestRecv ==
    /\ cli.pc = "request_recv"
    /\ LET i == cli.conn IN
       \E o \in ReadOutcomes(s2c[i], sEnd[i], 1) :
         LET r == Reply(o, s2c[i]) IN
           /\ cli' = IF RequestAcked(r) THEN [cli EXCEPT !.pc = "send_filename"]
                     ELSE CliFail(cli, "request_recv",
                                  IF r = "Timeout" THEN "Io"
                                  ELSE IF r = "Err" THEN "Message" ELSE "ExpectedAck")
           /\ hist' = HCliEv(HFault(hist, r = "Timeout"), "r" \o r)
           /\ s2c' = S2cAfter(cli', [s2c EXCEPT ![i] = Drop(@, o.n)])
    /\ cEnd' = CEndAfter(cli')
    /\ UNCHANGED <<codec, c2s, sEnd, srv, disk, peer>>

\* send_filename: write_all of the name's bytes; request() returns
\* Client<Negotiating>
CliSendFilename ==
    /\ cli.pc = "send_filename"
    /\ \E w \in WriteOutcomes :
         IF w = "ok"
         THEN /\ CliWrite(cli.filename, "name", 0)
              /\ cli' = [cli EXCEPT !.state = "Negotiating", !.pc = "negotiate_recv"]
              /\ hist' = HCliEv(HWire(hist, cli.conn, "c", cli.filename), "sName")
         ELSE /\ c2s' = c2s
              /\ cli' = CliFail(cli, "send_filename", "Io")
              /\ hist' = HFault(hist, TRUE)
    /\ cEnd' = CEndAfter(cli')
    /\ s2c' = S2cAfter(cli', s2c)
    /\ UNCHANGED <<codec, sEnd, srv, disk, peer>>

\* accept(): Client<Sending> with the connection and the file; Sending has no
\* filename field, the name stays as it was sent
Accept(c) == [c EXCEPT !.state = "Sending", !.error = NoError]

\* a deny() that moves file and filename over
DenyKeeping(c) == [c EXCEPT !.state = "Connected", !.error = NoError]

\* deny(): Client<Connected> with the connection, file: None, filename: None
Deny(c) ==
    [c EXCEPT !.state = "Connected", !.file = NoName, !.filename = NoName,
              !.error = NoError]

\* send(): the reply to the name; Ack: accept(), anything else: deny() and
\* goodbye()
CliNegotiateRecv ==
    /\ cli.pc = "negotiate_recv"
    /\ LET i == cli.conn IN
       \E o \in ReadOutcomes(s2c[i], sEnd[i], 1) :
         LET r == Reply(o, s2c[i]) IN
           /\ cli' = IF NegotiationAcked(r)
                     THEN [Accept(cli) EXCEPT !.pc = "send_size"]
                     ELSE [Deny(cli) EXCEPT !.attempt = 0, !.pc = "goodbye"]
           /\ hist' = HCliEv(HFault(hist, r = "Timeout"), "r" \o r)
           /\ s2c' = [s2c EXCEPT ![i] = Drop(@, o.n)]
    /\ UNCHANGED <<codec, c2s, cEnd, sEnd, srv, disk, peer>>

\* send_file: `connection.write(&size.to_be_bytes())?`: one write, which may
\* take fewer than the 8 bytes and still return Ok
CliSendSize ==
    /\ cli.pc = "send_size"
    /\ \E k \in 0..8 :
         LET prefix == Take(ToBeBytes(Len(cli.file)), k) IN
           IF k = 0
           THEN /\ c2s' = c2s
                /\ cli' = CliFail(cli, "send_file", "Io")
                /\ hist' = HFault(hist, TRUE)
           ELSE /\ CliWrite(prefix, "size", Len(cli.file))
                /\ cli' = [cli EXCEPT !.pc = "send_body"]
                /\ hist' = HFault(HWire(hist, cli.conn, "c", prefix), k < 8)
    /\ cEnd' = CEndAfter(cli')
    /\ s2c' = S2cAfter(cli', s2c)
    /\ UNCHANGED <<codec, sEnd, srv, disk, peer>>

\* send_file: io::copy of the file to the connection, Ok(())
CliSendBody ==
    /\ cli.pc = "send_body"
    /\ \E w \in WriteOutcomes :
         IF w = "ok"
         THEN /\ CliWrite(cli.file, "body", Len(cli.file))
              /\ cli' = [cli EXCEPT !.pc = "final_recv"]
              /\ hist' = [HWire(hist, cli.conn, "c", cli.file) EXCEPT !.sendOk = cli.file]
         ELSE /\ cli.file # <<>>
              /\ c2s' = c2s
              /\ cli' = CliFail(cli, "send_file", "Io")
              /\ hist' = HFault(hist, TRUE)
    /\ cEnd' = CEndAfter(cli')
    /\ s2c' = S2cAfter(cli', s2c)
    /\ UNCHANGED <<codec, sEnd, srv, disk, peer>>

\* send(): the reply to the file, which changes nothing but what is printed
CliFinalRecv ==
    /\ cli.pc = "final_recv"
    /\ LET i == cli.conn IN
       \E o \in ReadOutcomes(s2c[i], sEnd[i], 1) :
         LET r == Reply(o, s2c[i]) IN
           /\ cli' = [cli EXCEPT !.pc = "finish"]
           /\ hist' = HFault(hist, r = "Timeout")
           /\ s2c' = [s2c EXCEPT ![i] = Drop(@, o.n)]
    /\ UNCHANGED <<codec, c2s, cEnd, sEnd, srv, disk, peer>>

\* finish(), Ok: Client<Connected> with the connection, file: None,
\* filename: None, error: None
FinishOk(c) ==
    [c EXCEPT !.state = "Connected", !.file = NoName, !.filename = NoName,
              !.error = NoError]

\* a finish() that returns the client as it was
FinishErrSilent(c, e) == c

\* finish(), Err: Client<Sending> with the same state and the error
FinishErr(c, e) == [c EXCEPT !.error = e]

\* finish(): send Goodbye; Ok: Client<Connected>, on which send() calls
\* goodbye(); Err: the Client<Sending> with the error
CliFinish ==
    /\ cli.pc = "finish"
    /\ \E w \in WriteOutcomes :
         IF w = "ok"
         THEN /\ CliWrite(AsBytes("Goodbye"), "ctl", 0)
              /\ cli' = [FinishOk(cli) EXCEPT !.attempt = 0, !.pc = "goodbye"]
              /\ hist' = HWire(hist, cli.conn, "c", AsBytes("Goodbye"))
         ELSE /\ c2s' = c2s
              /\ cli' = [FinishErr(cli, [kind |-> "Io", at |-> 0]) EXCEPT
                            !.pc = "finish_err", !.at = "finish"]
              /\ hist' = HFault(hist, TRUE)
    /\ cEnd' = CEndAfter(cli')
    /\ s2c' = S2cAfter(cli', s2c)
    /\ UNCHANGED <<codec, sEnd, srv, disk, peer>>

\* send(): `if let Ok(connected_client) = sending_client.finish()` does not
\* match: the Client<Sending> and its error are dropped, send() returns Ok(())
CliFinishErr ==
    /\ cli.pc = "finish_err"
    /\ cli' = CliDrop(cli, "Ok", "finish")
    /\ cEnd' = CEndAfter(cli')
    /\ s2c' = S2cAfter(cli', s2c)
    /\ UNCHANGED <<codec, c2s, sEnd, srv, disk, peer, hist>>

\* goodbye(): the send of one turn of its loop; a failure is counted, and the
\* max_attempts-th ends the loop with disconnect(Some(e))
CliGoodbyeSend ==
    /\ cli.pc = "goodbye"
    /\ \E w \in WriteOutcomes :
         LET n == hist.gbSends + 1 IN
           IF w = "ok"
           THEN /\ CliWriteQueues => hist.gbSends - cli.attempt < MaxGbOk
                /\ CliWrite(AsBytes("Goodbye"), "ctl", 0)
                /\ cli' = [cli EXCEPT !.pc = "goodbye_recv"]
                /\ hist' = IF n - cli.attempt > MaxGbOk THEN hist
                            ELSE [HWire(hist, cli.conn, "c", AsBytes("Goodbye"))
                                    EXCEPT !.gbSends = n]
           ELSE /\ c2s' = c2s
                /\ cli' = IF CliGivesUp(cli.attempt + 1)
                          THEN CliDisconnect([cli EXCEPT !.attempt = @ + 1],
                                             [kind |-> "Io", at |-> n])
                          ELSE [cli EXCEPT !.attempt = @ + 1]
                /\ hist' = [HFault(hist, TRUE) EXCEPT !.gbSends = n]
    /\ cEnd' = CEndAfter(cli')
    /\ s2c' = S2cAfter(cli', s2c)
    /\ UNCHANGED <<codec, sEnd, srv, disk, peer>>

\* goodbye(): the receive of one turn: Goodbye ends the loop with
\* disconnect(None), anything else begins another turn
CliGoodbyeRecv ==
    /\ cli.pc = "goodbye_recv"
    /\ LET i == cli.conn IN
       \E o \in ReadOutcomes(s2c[i], sEnd[i], 1) :
         LET r == Reply(o, s2c[i]) IN
           /\ cli' = IF r = "Goodbye" THEN CliDisconnect(cli, NoError)
                     ELSE [cli EXCEPT !.pc = "goodbye"]
           /\ hist' = HFault(hist, r = "Timeout")
           /\ s2c' = S2cAfter(cli', [s2c EXCEPT ![i] = Drop(@, o.n)])
    /\ cEnd' = CEndAfter(cli')
    /\ UNCHANGED <<codec, c2s, sEnd, srv, disk, peer>>

ClientNext ==
    \/ CliNew
    \/ CliLoadFile
    \/ CliNoFile
    \/ CliConnect
    \/ CliConnectErr
    \/ CliRequestSend
    \/ CliRequestRecv
    \/ CliSendFilename
    \/ CliNegotiateRecv
    \/ CliSendSize
    \/ CliSendBody
    \/ CliFinalRecv
    \/ CliFinish
    \/ CliFinishErr
    \/ CliGoodbyeSend
    \/ CliGoodbyeRecv

(***************************************************************************)
(* A server of the client that is not the server of server.rs: it reads    *)
(* nothing and writes control bytes of its own choice, at any time, one    *)
(* as the one before has been read.                                        *)
(***************************************************************************)
RawInit ==
    peer = [pc |-> "raw", conn |-> 0, round |-> 0, items |-> 0, declared |-> 0, left |-> 0]

RawReply ==
    /\ peer.pc = "raw"
    /\ peer.items < MaxItems
    /\ cli.conn # NoConn
    /\ cEnd[cli.conn] = "open"
    /\ sEnd[cli.conn] = "pending"
    /\ s2c[cli.conn] = <<>>
    /\ \E b \in PeerCtl :
         s2c' = [s2c EXCEPT ![cli.conn] = @ \o Tagged(<<b>>, "ctl", 0, 0)]
    /\ peer' = [peer EXCEPT !.items = @ + 1]
    /\ UNCHANGED <<codec, c2s, cEnd, sEnd, srv, disk, cli, hist>>

RawClose ==
    /\ peer.pc = "raw"
    /\ cli.conn # NoConn
    /\ sEnd[cli.conn] = "pending"
    /\ sEnd' = [sEnd EXCEPT ![cli.conn] = "closed"]
    /\ UNCHANGED <<codec, c2s, s2c, cEnd, srv, disk, peer, cli, hist>>

RawNext == RawReply \/ RawClose

(***************************************************************************)
(* Initial states and specifications.                                      *)
(***************************************************************************)
CodecIdle ==
    codec = [op |-> "off", byte |-> 0, msg |-> "Ack",
             decoded |-> "none", encoded |-> <<>>, back |-> "none"]

NetInit ==
    /\ c2s = [i \in Conns |-> <<>>]
    /\ s2c = [i \in Conns |-> <<>>]
    /\ cEnd = [i \in Conns |-> "none"]
    /\ sEnd = [i \in Conns |-> "none"]

HistInit ==
    hist = [rfTaken |-> <<>>, rfEof |-> FALSE, rfResult |-> "none", rfWritten |-> 0,
            rfDest |-> Invalid, rfConn |-> 0,
            wire |-> <<>>, faults |-> FALSE,
            sEv |-> <<>>, cEv |-> <<>>,
            srcName |-> NoName, srcBody |-> NoName,
            sendOk |-> NoName,
            gbSends |-> 0, sGbFails |-> 0,
            orderly |-> TRUE, names |-> <<>>,
            rName |-> NoName, rfSize |-> U64Zero]

DiskInit == disk = [p \in {} |-> <<>>]

\* the server, serving peers that choose their bytes
ServerInit ==
    CodecIdle /\ NetInit /\ SrvInit /\ DiskInit /\ PeerInit /\ HistInit /\ CliOff

SpecServer == ServerInit /\ [][ServerNext \/ PeerNext]_vars

\* the client of client.rs and the server of server.rs
Init == CodecIdle /\ NetInit /\ SrvInit /\ DiskInit /\ PeerInit /\ HistInit /\ CliInit

Next == ClientNext \/ ServerNext

Spec == Init /\ [][Next]_vars

\* the client, served by a peer that chooses its bytes
ClientInit == CodecIdle /\ NetInit /\ SrvInit /\ DiskInit /\ RawInit /\ HistInit /\ CliInit

SpecClient == ClientInit /\ [][ClientNext \/ RawNext]_vars

\* a new client on which load_file is called again and again
LoadInit ==
    /\ CodecIdle /\ NetInit /\ SrvInit /\ DiskInit /\ RawInit /\ HistInit
    /\ cli = [NewClient(1) EXCEPT !.pc = "load", !.caller = "lib"]

SpecLoad == LoadInit /\ [][CliLoadAgain]_vars

\* the same, with the client's thread running on: a step of send that can
\* be taken is taken (every I/O call of the client returns, the reads within
\* their 5 s timeout); the peer is free to stay silent
SpecClientFair == SpecClient /\ WF_vars(ClientNext)

(***************************************************************************)
(* The codec alone: decode any byte, encode any message and decode it back. *)
(***************************************************************************)
CodecInit ==
    /\ NetInit /\ SrvInit /\ DiskInit /\ PeerInit /\ HistInit /\ CliOff
    /\ codec \in [op : {"new"}, byte : Bytes, msg : Messages,
               decoded : {"none"}, encoded : {<<>>}, back : {"none"}]

CodecDecode ==
    /\ codec.op = "new"
    /\ codec' = [codec EXCEPT !.op = "decoded", !.decoded = TryFrom(codec.byte)]
    /\ UNCHANGED <<c2s, s2c, cEnd, sEnd, srv, disk, peer, cli, hist>>

CodecEncode ==
    /\ codec.op = "new"
    /\ codec' = [codec EXCEPT !.op = "encoded", !.encoded = AsBytes(codec.msg)]
    /\ UNCHANGED <<c2s, s2c, cEnd, sEnd, srv, disk, peer, cli, hist>>

CodecDecodeBack ==
    /\ codec.op = "encoded"
    /\ codec' = [codec EXCEPT !.op = "roundtrip", !.back = TryFrom(codec.encoded[1])]
    /\ UNCHANGED <<c2s, s2c, cEnd, sEnd, srv, disk, peer, cli, hist>>

CodecNext == CodecDecode \/ CodecEncode \/ CodecDecodeBack

SpecCodec == CodecInit /\ [][CodecNext]_vars

(***************************************************************************)
(* Properties.                                                             *)
(***************************************************************************)
\* what a reader of the spec calls the final path component of a payload:
\* trailing separators and trailing "/." aside, what follows the last
\* separator; none when that is empty, "." or ".."
RECURSIVE Trimmed(_)
Trimmed(s) ==
    IF s # <<>> /\ s[Len(s)] = Slash THEN Trimmed(Take(s, Len(s) - 1))
    ELSE IF Len(s) >= 2 /\ s[Len(s)] = Dot /\ s[Len(s) - 1] = Slash
      THEN Trimmed(Take(s, Len(s) - 2))
    ELSE s

RECURSIVE AfterLastSlash(_)
AfterLastSlash(s) ==
    IF s = <<>> THEN <<>>
    ELSE IF s[Len(s)] = Slash THEN <<>>
    ELSE Append(AfterLastSlash(Take(s, Len(s) - 1)), s[Len(s)])

FinalComponent(s) == AfterLastSlash(Trimmed(s))

HasFinalComponent(s) == FinalComponent(s) \notin {<<>>, <<Dot>>, <<Dot, Dot>>}

\* a resolved path directly inside the configured directory "/d"
InsideDirectory(p) == Len(p) = 2 /\ p[1] = <<100>>

\* receive_file began at the first byte of a size prefix
RfAtPrefix ==
    /\ hist.rfTaken # <<>>
    /\ hist.rfTaken[1].kind = "size"
    /\ hist.rfTaken[1].idx = 1

\* receive_file took the whole of that prefix, which declares a length > 0
RfPrefixWhole ==
    /\ RfAtPrefix
    /\ Len(hist.rfTaken) >= 8
    /\ \A i \in 1..8 : /\ hist.rfTaken[i].kind = "size"
                        /\ hist.rfTaken[i].idx = i
                        /\ hist.rfTaken[i].round = hist.rfTaken[1].round
    /\ hist.rfTaken[1].len > 0

\* C3 (as claimed): a receive_file that begins at a size prefix declaring L
\* takes from the channel only bytes of that prefix and of that transfer's
\* body, never more than 8 + L of them, and when it succeeds it has taken
\* exactly 8 + L bytes and written exactly L.
C3_ExactLengthConsumption ==
    RfAtPrefix =>
      LET t == hist.rfTaken
          L == t[1].len
      IN /\ \A i \in 1..Len(t) : /\ t[i].kind \in {"size", "body"}
                                  /\ t[i].round = t[1].round
         /\ Len(t) <= 8 + L
         /\ hist.rfResult = "Ok" => (Len(t) = 8 + L /\ hist.rfWritten = L)

\* C4 (as claimed): once the stream has ended after a whole prefix declaring
\* L > 0 and before L body bytes came, receive_file has ended in failure: it
\* is not still running and has not succeeded.
C4_ShortReadFails ==
    (RfPrefixWhole /\ hist.rfEof) => hist.rfResult = "Err"

\* C5 (as claimed): Server::run never returns because of an error raised
\* while a connection was handled (it may only fail to accept one).
C5_ListenerSurvives ==
    ~(srv.pc = "returned" /\ srv.err # "Accept")

\* C7: every file the server has created lies directly inside the configured
\* directory; right after receive_file created one, it is the directory's
\* entry named by the final path component of the received payload; and a
\* receive_file run on a payload without a final component has failed
\* without creating anything.
C7_PathSafety ==
    /\ \A p \in DOMAIN disk : InsideDirectory(p)
    /\ srv.pc = "rf_loop" =>
         /\ HasFinalComponent(srv.filename)
         /\ srv.dest = <<(<<100>>), FinalComponent(srv.filename)>>
         /\ srv.dest \in DOMAIN disk
    /\ (hist.rfResult # "none" /\ ~HasFinalComponent(srv.filename)) =>
         hist.rfResult = "Err"

\* C7's case: the payload "../a" was accepted and its file created as /d/a
C7_Witness ==
    /\ srv.pc = "rf_loop"
    /\ srv.filename = <<Dot, Dot, Slash, 97>>
    /\ srv.dest = <<(<<100>>), <<97>>>>
    /\ srv.dest \in DOMAIN disk

\* C8: decoding the byte a message encodes to gives the message back, the
\* four encodings are 30, 43, 200 and 255, and every other byte fails to
\* decode.
C8_CodecRoundTrip ==
    /\ codec.op = "roundtrip" => codec.back = codec.msg
    /\ codec.op = "encoded" =>
         codec.encoded = (CASE codec.msg = "FileTransferRequest" -> <<30>>
                            [] codec.msg = "RequestDenied" -> <<43>>
                            [] codec.msg = "Ack" -> <<200>>
                            [] codec.msg = "Goodbye" -> <<255>>)
    /\ (codec.op = "decoded" /\ codec.byte \notin {30, 43, 200, 255}) =>
         codec.decoded = "Err"
    /\ (codec.op = "decoded" /\ codec.byte \in {30, 43, 200, 255}) =>
         codec.decoded \in Messages

\* C8's case: RequestDenied went through encode and decode
C8_Witness ==
    /\ codec.op = "roundtrip"
    /\ codec.msg = "RequestDenied"
    /\ codec.encoded = <<43>>
    /\ codec.back = "RequestDenied"

\* both ends of the client's transfer have returned success: send_file on the
\* client, receive_file on the server, on the same connection
BothSucceeded ==
    /\ hist.sendOk # NoName
    /\ hist.rfResult = "Ok"
    /\ hist.rfConn = cli.conn

\* C1 (as claimed): when send_file and receive_file have both returned
\* success, the destination file holds exactly the bytes of the source file
\* (so its size is the source's length L), whatever L >= 0 and however the
\* channel split the bytes into reads.
C1_TransferIntegrity ==
    BothSucceeded =>
      /\ hist.rfDest \in DOMAIN disk
      /\ disk[hist.rfDest] = hist.sendOk
      /\ Len(disk[hist.rfDest]) = Len(hist.srcBody)

\* the events of a completed negotiation, as the server sees them and as the
\* client sees them
ServerNegotiated == <<"rFileTransferRequest", "sAck", "rName", "sAck">>

ClientNegotiated == <<"sFileTransferRequest", "rAck", "sName", "rAck">>

\* C2: whenever the server has read a size prefix (receive_file has begun), it
\* has before, on that connection and in this order, read a request, sent Ack,
\* read the filename and sent Ack; and whenever the client is in Sending it
\* has, in this order, sent the request, received Ack, sent the filename and
\* received Ack.
C2_PhaseOrdering ==
    /\ (hist.rfResult # "none" \/ srv.pc \in {"rf_loop", "ack_file"}) =>
         hist.sEv = ServerNegotiated
    /\ cli.state = "Sending" => hist.cEv = ClientNegotiated

\* C2's case: the client is in Sending while the server's receive_file is
\* under way on the client's connection
C2_Witness ==
    /\ cli.state = "Sending"
    /\ hist.rfResult = "running"
    /\ hist.rfConn = cli.conn
    /\ hist.sEv = ServerNegotiated
    /\ hist.cEv = ClientNegotiated

\* every send of goodbye() so far has failed
AllGoodbyeSendsFailed == hist.gbSends > 0 /\ cli.attempt = hist.gbSends

\* C6: while every send of Goodbye has failed, goodbye() is still in its loop
\* after fewer than 5 sends, and after the 5th it has returned a Disconnected
\* client whose error is that of the 5th send; it never sends a 6th.
C6_GoodbyeRetryBound ==
    AllGoodbyeSendsFailed =>
      IF cli.pc = "done"
      THEN /\ hist.gbSends = 5
           /\ cli.state = "Disconnected"
           /\ cli.error = [kind |-> "Io", at |-> 5]
      ELSE /\ cli.pc = "goodbye"
           /\ hist.gbSends < 5

\* C6's case: goodbye() has given up after five failed sends
C6_Witness ==
    /\ cli.pc = "done"
    /\ cli.at = "goodbye"
    /\ AllGoodbyeSendsFailed
    /\ hist.gbSends = 5
    /\ cli.error.kind = "Io"

\* the wire trace of the protocol for a file named name with content body
Sent(side, bs) == [k \in 1..Len(bs) |-> <<side, bs[k]>>]

ExpectedWire(name, body) ==
    Sent("c", <<30>>) \o Sent("s", <<200>>) \o Sent("c", name) \o Sent("s", <<200>>)
    \o Sent("c", ToBeBytes(Len(body))) \o Sent("c", body) \o Sent("s", <<200>>)
    \o Sent("c", <<255>>) \o Sent("s", <<255>>)

\* Client::send has returned after send_file succeeded, and no I/O call of
\* either side has failed, timed out or come short so far
FaultFreeTransferDone ==
    /\ ~hist.faults
    /\ cli.pc = "done"
    /\ hist.sendOk # NoName

\* C9 (as claimed): after a fault-free Client::send that transferred a file,
\* the bytes written on the connection are, in order, exactly 30 by the
\* client, 200, the base name, 200, the 8-byte size and the body, 200, one 255
\* by the client and 255 by the server; the client is Disconnected without an
\* error and the directory holds the file with the same bytes.
C9_WireTrace ==
    FaultFreeTransferDone =>
      /\ hist.wire = ExpectedWire(hist.srcName, hist.srcBody)
      /\ cli.state = "Disconnected"
      /\ cli.error = NoError
      /\ <<(<<100>>), hist.srcName>> \in DOMAIN disk
      /\ disk[<<(<<100>>), hist.srcName>>] = hist.srcBody

\* request() has returned an error because of the reply to its
\* FileTransferRequest
RequestReplyFailed == cli.pc = "done" /\ cli.at = "request_recv"

\* C10 (as claimed): when the reply to FileTransferRequest is not Ack, or is
\* not read in time, or does not decode, request() has surfaced an error and
\* the sender is still Connected, its connection open, its file and filename
\* as they were loaded.
C10_FailedRequestStaysConnected ==
    RequestReplyFailed =>
      /\ cli.result = "Err"
      /\ cli.state = "Connected"
      /\ cEnd[cli.conn] = "open"
      /\ cli.file = hist.srcBody
      /\ cli.filename = hist.srcName

\* negotiation has failed on an open connection and Client::send has returned:
\* request() failed at the reply to FileTransferRequest or at the write of the
\* filename, or the reply to the filename was not Ack
NegotiationFailed ==
    /\ cli.pc = "done"
    /\ cli.conn # NoConn
    /\ \/ cli.at \in {"request_recv", "send_filename"}
       \/ Len(hist.cEv) = 4 /\ hist.cEv[4] # "rAck"

\* C11 (as claimed): whenever negotiation has failed after the connection was
\* opened, the client has called goodbye() and tried to send Goodbye on the
\* connection before the connection was dropped.
C11_OrderlyGoodbye ==
    NegotiationFailed => hist.gbSends > 0

\* request() has been called on a client with no file or no filename loaded
RequestedUnconfigured ==
    /\ cli.conn # NoConn
    /\ cli.pc # "request_send"
    /\ (hist.srcBody = NoName \/ hist.srcName = NoName)

\* C12: once request() has been called with no file (or no filename) loaded,
\* it has failed with the no-file (no-filename) error and no byte has been
\* written on the connection; and whenever a byte has been written on the
\* connection, the first of which is FileTransferRequest, both a file and a
\* filename had been loaded.
C12_RequestNeedsFile ==
    /\ RequestedUnconfigured =>
         /\ cli.pc = "done"
         /\ cli.result = "Err"
         /\ cli.ret \in {"NoFile", "NoFilename"}
         /\ hist.wire = <<>>
         /\ c2s[cli.conn] = <<>>
    /\ hist.wire # <<>> =>
         /\ hist.wire[1] = <<"c", 30>>
         /\ hist.srcBody # NoName
         /\ hist.srcName # NoName

\* C12's case: request() was called on a connected client without a file and
\* has returned the no-file error
C12_Witness ==
    /\ RequestedUnconfigured
    /\ cli.state = "Dropped"
    /\ cli.at = "request_send"
    /\ cli.ret = "NoFile"
    /\ cEnd[cli.conn] = "closed"

\* C18: connect() leaves the pending file and filename as they were, and
\* either returns a Connected client with an open connection and no error, or
\* a Disconnected client without a connection whose error field holds the
\* failure (the address did not parse, or the connection was not made).
C18_ConnectFrame ==
    [][(cli.pc = "connect" /\ cli'.pc # cli.pc) =>
         /\ cli'.file = cli.file
         /\ cli'.filename = cli.filename
         /\ \/ /\ cli'.state = "Connected"
               /\ cli'.error = NoError
               /\ cli'.conn # NoConn
               /\ cEnd[cli'.conn] = "none"
               /\ cEnd'[cli'.conn] = "open"
            \/ /\ cli'.state = "Disconnected"
               /\ cli'.error.kind \in {"AddrParse", "Connect"}
               /\ cli'.conn = NoConn
               /\ cEnd' = cEnd]_vars

\* C18's case: connect() has failed on a client that holds a file
C18_Witness ==
    /\ cli.pc = "connect_err"
    /\ cli.state = "Disconnected"
    /\ cli.error.kind = "Connect"
    /\ cli.file = <<1, 255>>
    /\ cli.filename = <<98>>

\* the byte the one read of a reply takes, when one has arrived in time: the
\* oldest the peer wrote; -1 when the read times out or meets the end
ReplyByte == IF s2c[cli.conn] # <<>> THEN Val(s2c[cli.conn][1]) ELSE -1

\* C13: the step of Client::send that reads the reply to the filename: when
\* the byte read is 200 (Ack) the client becomes Sending on the same, open
\* connection with the same file; on any other byte, a timeout or the end of
\* the stream it becomes Connected on the same, open connection with file and
\* filename both cleared.
C13_NegotiatingOutcome ==
    [][(cli.pc = "negotiate_recv" /\ cli'.pc # cli.pc) =>
         /\ cli'.conn = cli.conn
         /\ cEnd'[cli.conn] = "open"
         /\ IF ReplyByte = 200
            THEN /\ cli'.state = "Sending"
                 /\ cli'.file = cli.file
                 /\ cli'.file # NoName
            ELSE /\ cli'.state = "Connected"
                 /\ cli'.file = NoName
                 /\ cli'.filename = NoName]_vars

\* C13's case: the reply to the filename was RequestDenied and the client is
\* Connected, about to say Goodbye, with nothing pending
C13_Witness ==
    /\ cli.pc = "goodbye"
    /\ hist.cEv = <<"sFileTransferRequest", "rAck", "sName", "rRequestDenied">>
    /\ hist.gbSends = 0
    /\ cli.state = "Connected"
    /\ cli.file = NoName
    /\ cli.filename = NoName
    /\ cEnd[cli.conn] = "open"

\* C14: the step finish(): either exactly one Goodbye byte is written and the
\* client becomes Connected on the same, open connection with file and
\* filename cleared and no error; or nothing is written and the client is
\* still Sending on the same, open connection with the same file and the
\* send's error in its error field.
C14_FinishFrame ==
    [][(cli.pc = "finish" /\ cli'.pc # cli.pc) =>
         /\ cli'.conn = cli.conn
         /\ cEnd'[cli.conn] = "open"
         /\ \/ /\ hist'.wire = Append(hist.wire, <<"c", 255>>)
               /\ cli'.state = "Connected"
               /\ cli'.file = NoName
               /\ cli'.filename = NoName
               /\ cli'.error = NoError
            \/ /\ hist'.wire = hist.wire
               /\ c2s' = c2s
               /\ cli.state = "Sending"
               /\ cli'.state = "Sending"
               /\ cli'.file = cli.file
               /\ cli'.error.kind = "Io"]_vars

\* C14's case: the Goodbye of finish() was not sent and finish() has returned
\* the Sending client with the error
C14_Witness ==
    /\ cli.pc = "finish_err"
    /\ cli.state = "Sending"
    /\ cli.file = <<1>>
    /\ cli.error.kind = "Io"
    /\ cEnd[cli.conn] = "open"

\* the byte receive_message takes, when one has arrived: the oldest the peer
\* wrote on the server's connection
RequestByte == Val(c2s[srv.connection][1])

\* C15: the steps of the server in Connected.  Reading 30
\* (FileTransferRequest) leads to the reply: the server is still Connected and
\* has written nothing; the reply step then sends Ack and enters Negotiating,
\* or fails.  Reading 255 (Goodbye), 43 (RequestDenied) or 200 (Ack) leads to
\* goodbye() with the server still Connected; and neither these steps nor
\* goodbye() create or change a file.
C15_ConnectedDispatch ==
    [][(srv' # srv /\ srv.pc \in {"receive_message", "ack_request", "goodbye"}) =>
         /\ disk' = disk
         /\ (srv.pc = "receive_message" /\ c2s[srv.connection] # <<>>) =>
              /\ srv.state = "Connected"
              /\ RequestByte = 30 =>
                   /\ srv'.pc = "ack_request"
                   /\ srv'.state = "Connected"
                   /\ s2c' = s2c
              /\ RequestByte \in {255, 43, 200} =>
                   /\ srv'.pc = "goodbye"
                   /\ srv'.state = "Connected"
                   /\ s2c' = s2c
         /\ srv.pc = "ack_request" =>
              \/ /\ srv'.state = "Negotiating"
                 /\ srv'.pc = "receive_filename"
                 /\ hist'.sEv = <<"rFileTransferRequest", "sAck">>
              \/ srv'.pc = "returned"
         /\ srv'.state = "Negotiating" => srv.pc = "ack_request"]_vars

\* C15's case: RequestDenied was read in Connected and the server is in
\* goodbye(), Connected, no file created
C15_Witness ==
    /\ srv.pc = "goodbye"
    /\ srv.state = "Connected"
    /\ hist.sEv = <<"rRequestDenied">>
    /\ DOMAIN disk = {}

\* C16 (as claimed): when Server::goodbye has given up sending Goodbye, more
\* than one send of it had failed: a first failure is retried.
C16_ServerGoodbyeRetries ==
    (srv.pc = "returned" /\ srv.err = "Goodbye") => hist.sGbFails > 1

\* the raw peer has run Len(hist.names) >= 1 rounds on its connection, waiting
\* for each reply, and each round's request, name and file have been Acked
RoundsAcked ==
    /\ peer.conn # 0
    /\ hist.orderly
    /\ Len(hist.names) >= 1
    /\ Len(s2c[peer.conn]) >= 3 * Len(hist.names)
    /\ \A j \in 1..(3 * Len(hist.names)) : Val(s2c[peer.conn][j]) = AsBytes("Ack")[1]

\* C17: when a peer has run n >= 1 rounds on one connection, each Acked, a
\* file is stored under the final component of the name of each round, and
\* until the peer's next message is answered the receiver is Connected on
\* that same connection.
C17_ConnectionReuse ==
    RoundsAcked =>
      /\ \A r \in 1..Len(hist.names) :
           OsResolve(DestPath(Directory, hist.names[r])) \in DOMAIN disk
      /\ (Len(s2c[peer.conn]) = 3 * Len(hist.names) /\ ~ServerGone(srv)) =>
           srv.connection = peer.conn /\ srv.state = "Connected"

\* two rounds on one connection, named "a" and "b", both stored, the receiver
\* waiting for a third request
C17_Witness ==
    /\ RoundsAcked
    /\ hist.names = <<(<<97>>), <<98>>>>
    /\ srv.pc = "receive_message"
    /\ srv.connection = peer.conn
    /\ {OsResolve(DestPath(Directory, <<97>>)), OsResolve(DestPath(Directory, <<98>>))}
         \subseteq DOMAIN disk

\* Client::send has returned and one of its steps had failed for good:
\* load_file, request, send_filename or send_file (returned with `?`),
\* connect, finish, or a goodbye whose retries ran out
SendStepFailed ==
    /\ cli.pc = "done"
    /\ cli.caller = "send"
    /\ \/ cli.result = "Err"
       \/ cli.at \in {"connect", "finish"}
       \/ cli.at = "goodbye" /\ cli.error # NoError

\* the failure is what send returned, or it is the error of the
\* Client<Disconnected> that connect or goodbye ended with
ErrorSurfaced ==
    \/ cli.result = "Err"
    \/ cli.at \in {"connect", "goodbye"} /\ cli.error # NoError

\* C19 (as claimed): a run of Client::send in which a step failed ends with
\* the error returned or attached to the resulting Disconnected client; it
\* never returns Ok(()) with the error discarded.
C19_NoSwallowedErrors == SendStepFailed => ErrorSurfaced

\* C20 (as claimed): every call of Client<Connected>::goodbye eventually
\* returns a Client<Disconnected>, whatever the peer does.
C20_GoodbyeTerminates ==
    (cli.pc = "goodbye") ~> (cli.pc = "done" /\ cli.state = "Disconnected")

\* the bytes the client's connection has taken from it, in order
ClientWrote ==
    LET cs == SelectSeq(hist.wire, LAMBDA e : e[1] = "c")
    IN [j \in 1..Len(cs) |-> cs[j][2]]

\* C21 (as claimed): when send_file has returned Ok, what the connection took
\* after the request byte and the filename is all 8 bytes of the big-endian
\* length of the file followed by all of the file's bytes.
C21_CompleteWrites ==
    (cli.pc = "final_recv" /\ hist.sendOk = cli.file) =>
      ClientWrote = AsBytes("FileTransferRequest") \o cli.filename
                      \o ToBeBytes(Len(cli.file)) \o cli.file

\* what the server has done since the request it last read, when the name
\* of a transfer has been received and Acked
NameNegotiated == <<"rFileTransferRequest", "sAck", "rName", "sAck">>

SrvInProtocol ==
    srv.pc \in {"receive_message", "ack_request", "receive_filename", "ack_filename",
                "receive_file", "rf_loop", "ack_file", "goodbye"}

\* C23: whenever the server is inside progress_protocol its connection and
\* its phase are set, in receive_file its filename is set, and
\* progress_protocol has never found the phase unset.
C23_UnwrapSafety ==
    /\ SrvInProtocol => srv.connection # NoConn /\ srv.state # "None"
    /\ srv.pc \in {"receive_file", "rf_loop"} => srv.filename # NoName
    /\ srv.err # "Behaviour"
    /\ srv.pc = "listen" => srv.err = "none"

\* after a first connection was closed by goodbye, which unsets connection
\* and phase, the server is in receive_file on the second
C23_Witness ==
    /\ srv.pc = "receive_file"
    /\ srv.connection = 2
    /\ srv.state = "Receiving"
    /\ srv.filename # NoName
    /\ sEnd[1] = "closed"

\* C24 (as claimed): after any sequence of load_file calls, a client that
\* holds a file and a filename holds the base name of the path that file was
\* opened from, and while no load_file has succeeded it holds neither.
C24_FileNamePaired ==
    cli.pc = "load" =>
      /\ (cli.file # NoName /\ cli.filename # NoName) =>
           cli.filename = hist.srcName /\ cli.file = hist.srcBody
      /\ hist.srcName = NoName => cli.file = NoName /\ cli.filename = NoName

====
